---- MODULE Spec2Model ----
(***************************************************************************)
(* ServCore helpdesk: the ticket lifecycle engine and the assignment       *)
(* arbitration protocol (app/tickets, app/admin, app/models.py).           *)
(*                                                                         *)
(* The durable store is the two tables `tickets` and `assignment_requests`.*)
(* A request handler runs in its own SQLAlchemy session: it first loads    *)
(* rows and evaluates its guards on the loaded values (the Begin step),    *)
(* and later flushes and commits (the Commit step).  No handler            *)
(* takes a row lock (there is no with_for_update), so other handlers'      *)
(* commits may fall between the two steps.  The unit of work writes only   *)
(* the columns whose value differs from the loaded one; bulk               *)
(* Query.update() statements and the unique constraint are evaluated by    *)
(* the store at commit time.                                               *)
(***************************************************************************)
EXTENDS Integers, Sequences, FiniteSets, Bags, TLC

\* ------------------------------------------------------------------ bounds
\* Number of tickets that may be created.
MaxTickets == 1
\* Number of request handlers that may be in flight at the same time.
MaxInFlight == 2
\* Last value the clock may reach (the clock counts minutes).
MaxTime == 1440

\* Minutes looked at on either side of each time threshold.
BoundarySlack == 1

\* The clock advances in steps of half the eligibility threshold (12 hours).
TickSteps == {720}

\* ------------------------------------------------------------------ data
\* A nullable column holding no value.
NULL == -1

\* Users seeded by init_db: one admin, two agents, one plain user.
Users == {1, 2, 3, 4}
role(u) == CASE u = 1 -> "admin"
             [] u \in {2, 3} -> "agent"
             [] OTHER -> "user"
is_admin(u) == role(u) = "admin"
is_agent(u) == role(u) = "agent"

\* The users who file tickets: an agent and a plain user.
Creators == {2, 4}

Statuses == {"OPEN", "IN_PROGRESS", "RESOLVED", "CLOSED"}
RequestStatuses == {"PENDING", "APPROVED", "REJECTED"}

\* Target statuses a client may post: the four statuses and a value that is
\* none of them.
Targets == Statuses \cup {"BOGUS"}

VARIABLES
    tickets,    \* table tickets: sequence of rows, id = index
    requests,   \* table assignment_requests: sequence of rows, id = index
    now,        \* datetime.utcnow(), in minutes
    inflight,   \* bag of handlers that passed their guards and await commit
    last        \* the call most recently served serially and its response

vars == <<tickets, requests, now, inflight, last>>

TicketIds == 1..Len(tickets)
RequestIds == 1..Len(requests)

\* ------------------------------------------------------------ unit of work
\* The columns of `obj` (the in-memory object after the handler's
\* assignments) that differ from the loaded row: what flush() UPDATEs.
Dirty(loaded, obj) ==
    [f \in {g \in DOMAIN obj : obj[g] # loaded[g]} |-> obj[f]]

\* UPDATE row SET the dirty columns.
ApplyWrites(row, w) ==
    [f \in DOMAIN row |-> IF f \in DOMAIN w THEN w[f] ELSE row[f]]

NoWrites == [f \in {} |-> NULL]

\* A response: the handler returned (redirect, abort or exception) and
\* nothing is left to commit.
Response(opname, code) ==
    [op |-> opname, phase |-> "done", outcome |-> code]

\* A handler that passed its guards and is about to flush and commit.
Plan(opname, tid, rid, twrites, rwrites, bulkkind, insagent) ==
    [op |-> opname, phase |-> "commit", t |-> tid, r |-> rid,
     tw |-> twrites, rw |-> rwrites, bulk |-> bulkkind, ins |-> insagent]

\* No call has been served serially.
NoCall == [op |-> "none"]

\* ------------------------------------------------------- models.py: Ticket
\* The values of the priority column, and one the enum does not list.
Priorities == {"Low", "Medium", "High", "Critical", "Urgent"}

\* get_sla_target with 48 as the default of sla_targets.get.
get_sla_target_default_48(ticket) ==
    CASE ticket.priority = "Critical" -> 4
      [] ticket.priority = "High" -> 24
      [] ticket.priority = "Medium" -> 48
      [] ticket.priority = "Low" -> 72
      [] OTHER -> 48

\* get_sla_target: sla_targets.get(self.priority, 72), in hours.
get_sla_target(ticket) ==
    CASE ticket.priority = "Critical" -> 4
      [] ticket.priority = "High" -> 24
      [] ticket.priority = "Medium" -> 48
      [] ticket.priority = "Low" -> 72
      [] OTHER -> 72

\* Times are whole minutes.  A number of hours, which the code holds as a
\* float (total_seconds() / 3600), is held as the number of minutes it
\* spans, and compared with h hours as h * MinutesPerHour.
MinutesPerHour == 60

RequestAgeHours == 24

hours_since_creation(ticket) == now - ticket.created_at

\* can_request_assignment with > in place of >= at line 148.
can_request_assignment_strictly_older(ticket) ==
    /\ ticket.assigned_to = NULL
    /\ ticket.status = "OPEN"
    /\ hours_since_creation(ticket) > RequestAgeHours * MinutesPerHour

can_request_assignment(ticket) ==
    /\ ticket.assigned_to = NULL
    /\ ticket.status = "OPEN"
    /\ hours_since_creation(ticket) >= RequestAgeHours * MinutesPerHour

valid_transitions_model(s) ==
    CASE s = "OPEN" -> {"IN_PROGRESS"}
      [] s = "IN_PROGRESS" -> {"OPEN", "RESOLVED"}
      [] s = "RESOLVED" -> {"IN_PROGRESS", "CLOSED"}
      [] s = "CLOSED" -> {}
      [] OTHER -> {}

can_transition_to(ticket, new_status) ==
    new_status \in valid_transitions_model(ticket.status)

\* ------------------------------------------- tickets/services.py: SLA
\* Below this many hours of remaining time an unresolved ticket is shown as
\* a warning.
WarningHours == 2

\* calculate_sla_status with <= in place of < at line 45.
calculate_sla_status_overdue_at_target(ticket) ==
    LET target_hours == get_sla_target(ticket)
        elapsed == now - ticket.created_at
        remaining == target_hours * MinutesPerHour - elapsed
        is_overdue == remaining <= 0
    IN  [target_hours |-> target_hours,
         elapsed_hours |-> elapsed,
         remaining_hours |-> remaining,
         is_overdue |-> is_overdue,
         status_class |->
            IF is_overdue THEN "sla-overdue"
            ELSE IF remaining < WarningHours * MinutesPerHour THEN "sla-warning"
            ELSE "sla-ok"]

\* calculate_sla_status(ticket) of tickets/services.py.  elapsed_hours and
\* remaining_hours are given in minutes; display_text, a string formatted
\* from them, is not part of the record.
calculate_sla_status(ticket) ==
    LET target_hours == get_sla_target(ticket)
        target == target_hours * MinutesPerHour
    IN  IF ticket.status \in {"RESOLVED", "CLOSED"} /\ ticket.resolved_at # NULL
        THEN LET elapsed == ticket.resolved_at - ticket.created_at
                 is_overdue == elapsed > target
             IN  [target_hours |-> target_hours,
                  elapsed_hours |-> elapsed,
                  remaining_hours |-> target - elapsed,
                  is_overdue |-> is_overdue,
                  status_class |-> IF is_overdue THEN "sla-overdue" ELSE "sla-ok"]
        ELSE LET elapsed == now - ticket.created_at
                 remaining == target - elapsed
                 is_overdue == remaining < 0
             IN  [target_hours |-> target_hours,
                  elapsed_hours |-> elapsed,
                  remaining_hours |-> remaining,
                  is_overdue |-> is_overdue,
                  status_class |->
                     IF is_overdue THEN "sla-overdue"
                     ELSE IF remaining < WarningHours * MinutesPerHour
                     THEN "sla-warning"
                     ELSE "sla-ok"]

\* ------------------------------------------------- services/sla_service.py
\* str.upper() on the priority values.
upper(priority) ==
    CASE priority = "Critical" -> "CRITICAL"
      [] priority = "High" -> "HIGH"
      [] priority = "Medium" -> "MEDIUM"
      [] priority = "Low" -> "LOW"
      [] OTHER -> "URGENT"

\* SLA_HOURS.get(priority, 72)
SLA_HOURS(priority) ==
    CASE priority = "CRITICAL" -> 4
      [] priority = "HIGH" -> 24
      [] priority = "MEDIUM" -> 48
      [] priority = "LOW" -> 72
      [] OTHER -> 72

\* calculate_sla_status(ticket) of services/sla_service.py; `remaining`, a
\* timedelta, is given in minutes.
sla_service_calculate_sla_status(ticket) ==
    LET sla_hours == SLA_HOURS(upper(ticket.priority))
        deadline == ticket.created_at + sla_hours * MinutesPerHour
    IN  IF ticket.created_at = NULL
        THEN [status |-> "none"]
        ELSE IF ticket.resolved_at # NULL
        THEN IF ticket.resolved_at <= deadline
             THEN [status |-> "ok", remaining |-> 0, overdue |-> FALSE]
             ELSE [status |-> "breached", remaining |-> 0, overdue |-> TRUE]
        ELSE IF now <= deadline
        THEN [status |-> "ok", remaining |-> deadline - now, overdue |-> FALSE]
        ELSE [status |-> "breached", remaining |-> 0, overdue |-> TRUE]

\* ------------------------------------------------- tickets/services.py
\* A table with RESOLVED -> CLOSED left out.
valid_transitions_missing_edge(s) ==
    CASE s = "OPEN" -> {"IN_PROGRESS"}
      [] s = "IN_PROGRESS" -> {"OPEN", "RESOLVED"}
      [] s = "RESOLVED" -> {"IN_PROGRESS"}
      [] s = "CLOSED" -> {}
      [] OTHER -> {}

valid_transitions(s) ==
    CASE s = "OPEN" -> {"IN_PROGRESS"}
      [] s = "IN_PROGRESS" -> {"OPEN", "RESOLVED"}
      [] s = "RESOLVED" -> {"IN_PROGRESS", "CLOSED"}
      [] s = "CLOSED" -> {}
      [] OTHER -> {}

validate_status_transition(current_status, new_status) ==
    new_status \in valid_transitions(current_status)

\* update_ticket_status without the CLOSED test of lines 134-136.
update_ticket_status_no_closed_test(ticket_id, new_status, user) ==
    LET ticket == tickets[ticket_id]
        obj1 == [ticket EXCEPT !.status = new_status]
        obj2 == IF new_status = "RESOLVED" /\ obj1.resolved_at = NULL
                THEN [obj1 EXCEPT !.resolved_at = now] ELSE obj1
    IN  IF ~(is_admin(user) \/ is_agent(user) \/ ticket.created_by = user)
        THEN Response("update_ticket_status", "Forbidden")
        ELSE IF ~validate_status_transition(ticket.status, new_status)
        THEN Response("update_ticket_status", "InvalidTransition")
        ELSE Plan("update_ticket_status", ticket_id, 0, Dirty(ticket, obj2),
                  NoWrites, "none", NULL)

\* update_ticket_status(ticket_id, new_status, user): the loaded row is
\* `ticket`; `obj` is the object after `ticket.status = new_status`, so the
\* test at line 154 reads the status just assigned.
update_ticket_status(ticket_id, new_status, user) ==
    LET ticket == tickets[ticket_id]
        obj1 == [ticket EXCEPT !.status = new_status]
        obj2 == IF new_status = "RESOLVED" /\ obj1.resolved_at = NULL
                THEN [obj1 EXCEPT !.resolved_at = now] ELSE obj1
        obj3 == IF new_status = "IN_PROGRESS" /\ obj2.status = "RESOLVED"
                THEN [obj2 EXCEPT !.resolved_at = NULL] ELSE obj2
    IN  IF ticket.status = "CLOSED"
        THEN Response("update_ticket_status", "Immutable")
        ELSE IF ~(is_admin(user) \/ is_agent(user) \/ ticket.created_by = user)
        THEN Response("update_ticket_status", "Forbidden")
        ELSE IF ~validate_status_transition(ticket.status, new_status)
        THEN Response("update_ticket_status", "InvalidTransition")
        ELSE Plan("update_ticket_status", ticket_id, 0, Dirty(ticket, obj3),
                  NoWrites, "none", NULL)

can_user_view_ticket(ticket, user) ==
    IF is_admin(user) THEN TRUE
    ELSE IF is_agent(user)
    THEN ticket.assigned_to = NULL \/ ticket.assigned_to = user
    ELSE ticket.created_by = user

\* --------------------------------------------------- tickets/routes.py
\* update_status without the assignee test of lines 192-193.
update_status_any_agent(id, new_status, current_user) ==
    LET ticket == tickets[id] IN
    IF is_agent(current_user)
    THEN IF new_status \notin {"IN_PROGRESS", "RESOLVED"}
         THEN Response("update_status", "Forbidden")
         ELSE update_ticket_status(id, new_status, current_user)
    ELSE IF is_admin(current_user)
    THEN IF new_status # "IN_PROGRESS" \/ ticket.status \notin {"RESOLVED", "CLOSED"}
         THEN Response("update_status", "Forbidden")
         ELSE update_ticket_status(id, new_status, current_user)
    ELSE Response("update_status", "Forbidden")

\* POST /tickets/<id>/status
update_status(id, new_status, current_user) ==
    LET ticket == tickets[id] IN
    IF is_agent(current_user)
    THEN IF ticket.assigned_to # current_user
         THEN Response("update_status", "Forbidden")
         ELSE IF new_status \notin {"IN_PROGRESS", "RESOLVED"}
         THEN Response("update_status", "Forbidden")
         ELSE update_ticket_status(id, new_status, current_user)
    ELSE IF is_admin(current_user)
    THEN IF new_status # "IN_PROGRESS" \/ ticket.status \notin {"RESOLVED", "CLOSED"}
         THEN Response("update_status", "Forbidden")
         ELSE update_ticket_status(id, new_status, current_user)
    ELSE Response("update_status", "Forbidden")

\* assign_ticket whose unassignment also sets the status back to OPEN.
assign_ticket_unassign_reopens(id, agent_id, current_user) ==
    LET ticket == tickets[id] IN
    IF ~is_admin(current_user)
    THEN Response("assign_ticket", "Forbidden")
    ELSE IF ticket.status = "CLOSED"
    THEN Response("assign_ticket", "Conflict")
    ELSE IF agent_id = NULL
    THEN Plan("assign_ticket", id, 0,
              Dirty(ticket, [ticket EXCEPT !.assigned_to = NULL,
                                           !.status = "OPEN"]), NoWrites,
              "none", NULL)
    ELSE IF agent_id \notin Users \/ role(agent_id) # "agent"
    THEN Response("assign_ticket", "InvalidAgent")
    ELSE Plan("assign_ticket", id, 0,
              Dirty(ticket, [ticket EXCEPT !.assigned_to = agent_id]), NoWrites,
              "none", NULL)

\* POST /tickets/<id>/assign; agent_id = NULL is the empty form field.
assign_ticket(id, agent_id, current_user) ==
    LET ticket == tickets[id] IN
    IF ~is_admin(current_user)
    THEN Response("assign_ticket", "Forbidden")
    ELSE IF ticket.status = "CLOSED"
    THEN Response("assign_ticket", "Conflict")
    ELSE IF agent_id = NULL
    THEN Plan("assign_ticket", id, 0,
              Dirty(ticket, [ticket EXCEPT !.assigned_to = NULL]), NoWrites,
              "none", NULL)
    ELSE IF agent_id \notin Users \/ role(agent_id) # "agent"
    THEN Response("assign_ticket", "InvalidAgent")
    ELSE Plan("assign_ticket", id, 0,
              Dirty(ticket, [ticket EXCEPT !.assigned_to = agent_id]), NoWrites,
              "none", NULL)

\* request_assignment with the test of the agent's own PENDING request
\* (lines 285-293) placed before the test of any PENDING request (275-282).
request_assignment_own_request_first(id, current_user) ==
    LET ticket == tickets[id]
        existing_pending ==
            {r \in RequestIds : requests[r].ticket_id = id
                                /\ requests[r].status = "PENDING"}
        existing_agent_req ==
            {r \in RequestIds : requests[r].ticket_id = id
                                /\ requests[r].agent_id = current_user
                                /\ requests[r].status = "PENDING"}
    IN  IF ~is_agent(current_user)
        THEN Response("request_assignment", "Forbidden")
        ELSE IF ~can_request_assignment(ticket)
        THEN Response("request_assignment", "NotEligible")
        ELSE IF existing_agent_req # {}
        THEN Response("request_assignment", "DuplicateRequest")
        ELSE IF existing_pending # {}
        THEN Response("request_assignment", "Conflict")
        ELSE Plan("request_assignment", id, 0, NoWrites, NoWrites, "none",
                  current_user)

\* POST /tickets/<id>/request-assignment
request_assignment(id, current_user) ==
    LET ticket == tickets[id]
        existing_pending ==
            {r \in RequestIds : requests[r].ticket_id = id
                                /\ requests[r].status = "PENDING"}
        existing_agent_req ==
            {r \in RequestIds : requests[r].ticket_id = id
                                /\ requests[r].agent_id = current_user
                                /\ requests[r].status = "PENDING"}
    IN  IF ~is_agent(current_user)
        THEN Response("request_assignment", "Forbidden")
        ELSE IF ~can_request_assignment(ticket)
        THEN Response("request_assignment", "NotEligible")
        ELSE IF existing_pending # {}
        THEN Response("request_assignment", "Conflict")
        ELSE IF existing_agent_req # {}
        THEN Response("request_assignment", "DuplicateRequest")
        ELSE Plan("request_assignment", id, 0, NoWrites, NoWrites, "none",
                  current_user)

\* POST /tickets/<id>/close
close_ticket(id, current_user) ==
    LET ticket == tickets[id] IN
    IF ticket.status # "RESOLVED"
    THEN Response("close_ticket", "NotResolved")
    ELSE IF ~(ticket.created_by = current_user \/ is_admin(current_user))
    THEN Response("close_ticket", "Forbidden")
    ELSE Plan("close_ticket", id, 0,
              Dirty(ticket, [ticket EXCEPT !.status = "CLOSED"]), NoWrites,
              "none", NULL)

\* reopen_ticket without `ticket.resolved_at = None` (line 349).
reopen_ticket_keeps_resolved_at(id, current_user) ==
    LET ticket == tickets[id] IN
    IF ticket.status # "RESOLVED"
    THEN Response("reopen_ticket", "NotResolved")
    ELSE IF ~(ticket.created_by = current_user \/ is_admin(current_user))
    THEN Response("reopen_ticket", "Forbidden")
    ELSE Plan("reopen_ticket", id, 0,
              Dirty(ticket, [ticket EXCEPT !.status = "IN_PROGRESS"]),
              NoWrites, "none", NULL)

\* POST /tickets/<id>/reopen
reopen_ticket(id, current_user) ==
    LET ticket == tickets[id] IN
    IF ticket.status # "RESOLVED"
    THEN Response("reopen_ticket", "NotResolved")
    ELSE IF ~(ticket.created_by = current_user \/ is_admin(current_user))
    THEN Response("reopen_ticket", "Forbidden")
    ELSE Plan("reopen_ticket", id, 0,
              Dirty(ticket, [ticket EXCEPT !.status = "IN_PROGRESS",
                                           !.resolved_at = NULL]),
              NoWrites, "none", NULL)

\* GET /tickets/<id>: the page is rendered (with the SLA status of the
\* ticket) or refused.
view_ticket(id, current_user) ==
    LET ticket == tickets[id] IN
    IF is_agent(current_user) /\ ticket.assigned_to # current_user
    THEN Response("view_ticket", "Forbidden")
    ELSE IF ~can_user_view_ticket(ticket, current_user)
    THEN Response("view_ticket", "Forbidden")
    ELSE Response("view_ticket", "OK")

\* The values of the category column.
Categories == {"IT", "HR", "Ops"}

\* Texts a client may put in the title and description fields.
Titles == {"title A", "title B"}
Descriptions == {"text A", "text B"}

\* request.form of the edit page; edit_ticket does not validate it.
EditForms ==
    [title : Titles, description : Descriptions, priority : Priorities,
     category : Categories]

\* GET or POST /tickets/<id>/edit; `form` is request.form.
edit_ticket(id, method, form, current_user) ==
    LET ticket == tickets[id] IN
    IF ticket.created_by # current_user
    THEN Response("edit_ticket", "Forbidden")
    ELSE IF ticket.assigned_to # NULL \/ ticket.status # "OPEN"
    THEN Response("edit_ticket", "NotEditable")
    ELSE IF method = "POST"
    THEN Plan("edit_ticket", id, 0,
              Dirty(ticket, [ticket EXCEPT !.title = form.title,
                                           !.description = form.description,
                                           !.priority = form.priority,
                                           !.category = form.category]),
              NoWrites, "none", NULL)
    ELSE Response("edit_ticket", "Form")

\* POST /tickets/<id>/delete.  `ticket.is_deleted = True` sets an attribute
\* that is no column of the table: the flush writes nothing, the answer is
\* "Ticket removed from your view."
delete_ticket(id, current_user) ==
    LET ticket == tickets[id] IN
    IF ticket.created_by # current_user
    THEN Response("delete_ticket", "Forbidden")
    ELSE IF ticket.assigned_to # NULL
    THEN Response("delete_ticket", "Assigned")
    ELSE Plan("delete_ticket", id, 0, NoWrites, NoWrites, "none", NULL)

\* ----------------------------------------------------- admin/routes.py
\* POST /admin/assign/<ticket_id>
assign_ticket_action(ticket_id, agent_id, current_user) ==
    LET ticket == tickets[ticket_id] IN
    IF ~is_admin(current_user)
    THEN Response("assign_ticket_action", "Forbidden")
    ELSE IF agent_id = NULL
    THEN Response("assign_ticket_action", "InvalidAgent")
    ELSE IF agent_id \notin Users \/ role(agent_id) \notin {"agent", "admin"}
    THEN Response("assign_ticket_action", "InvalidAgent")
    ELSE Plan("assign_ticket_action", ticket_id, 0,
              Dirty(ticket, [ticket EXCEPT !.assigned_to = agent_id,
                                           !.status = "IN_PROGRESS"]),
              NoWrites, "all", NULL)

\* approve without the RESOLVED/CLOSED test of lines 274-276.
approve_assignment_request_no_resolved_test(req_id, current_user) ==
    LET req == requests[req_id]
        ticket == tickets[req.ticket_id]
    IN  IF ~is_admin(current_user)
        THEN Response("approve_assignment_request", "Forbidden")
        ELSE IF ticket.assigned_to # NULL
        THEN Response("approve_assignment_request", "Conflict")
        ELSE Plan("approve_assignment_request", req.ticket_id, req_id,
                  Dirty(ticket, [ticket EXCEPT !.assigned_to = req.agent_id,
                                               !.status = "IN_PROGRESS"]),
                  Dirty(req, [req EXCEPT !.status = "APPROVED"]),
                  "others", NULL)

\* POST /admin/assignment-requests/<req_id>/approve
approve_assignment_request(req_id, current_user) ==
    LET req == requests[req_id]
        ticket == tickets[req.ticket_id]
    IN  IF ~is_admin(current_user)
        THEN Response("approve_assignment_request", "Forbidden")
        ELSE IF ticket.assigned_to # NULL
        THEN Response("approve_assignment_request", "Conflict")
        ELSE IF ticket.status \in {"RESOLVED", "CLOSED"}
        THEN Response("approve_assignment_request", "AlreadyResolved")
        ELSE Plan("approve_assignment_request", req.ticket_id, req_id,
                  Dirty(ticket, [ticket EXCEPT !.assigned_to = req.agent_id,
                                               !.status = "IN_PROGRESS"]),
                  Dirty(req, [req EXCEPT !.status = "APPROVED"]),
                  "others", NULL)

\* reject without the PENDING test of lines 304-306.
reject_assignment_request_no_pending_test(req_id, current_user) ==
    LET req == requests[req_id] IN
    IF ~is_admin(current_user)
    THEN Response("reject_assignment_request", "Forbidden")
    ELSE Plan("reject_assignment_request", 0, req_id, NoWrites,
              Dirty(req, [req EXCEPT !.status = "REJECTED"]), "none", NULL)

\* POST /admin/assignment-requests/<req_id>/reject
reject_assignment_request(req_id, current_user) ==
    LET req == requests[req_id] IN
    IF ~is_admin(current_user)
    THEN Response("reject_assignment_request", "Forbidden")
    ELSE IF req.status # "PENDING"
    THEN Response("reject_assignment_request", "AlreadyProcessed")
    ELSE Plan("reject_assignment_request", 0, req_id, NoWrites,
              Dirty(req, [req EXCEPT !.status = "REJECTED"]), "none", NULL)

\* ------------------------------------------------------------ the store
\* Query.update({'status': 'REJECTED'}) over the PENDING requests of ticket
\* tid, all of them or all but request rid, evaluated on the store's rows.
BulkReject(reqs, kind, tid, rid) ==
    [i \in 1..Len(reqs) |->
        IF /\ kind \in {"all", "others"}
           /\ reqs[i].ticket_id = tid
           /\ reqs[i].status = "PENDING"
           /\ (kind = "others" => i # rid)
        THEN [reqs[i] EXCEPT !.status = "REJECTED"]
        ELSE reqs[i]]

\* A table without uq_ticket_agent_request: no INSERT is refused.
UniqueViolation_no_constraint(reqs, tid, agent) == FALSE

\* uq_ticket_agent_request: is the INSERT refused?
UniqueViolation(reqs, tid, agent) ==
    \E i \in 1..Len(reqs) : reqs[i].ticket_id = tid /\ reqs[i].agent_id = agent

\* What the commit of handler w leaves in the two tables and answers, on
\* the rows the store holds at that moment.
CommitRefused(w) == w.ins # NULL /\ UniqueViolation(requests, w.t, w.ins)

CommitTickets(w) ==
    IF w.t # 0 /\ w.ins = NULL /\ ~CommitRefused(w)
    THEN [tickets EXCEPT ![w.t] = ApplyWrites(@, w.tw)]
    ELSE tickets

\* A store that keeps the INSERT of a commit it refuses.
CommitRequests_keeps_refused_insert(w) ==
    LET flushed == IF w.r # 0
                   THEN [requests EXCEPT ![w.r] = ApplyWrites(@, w.rw)]
                   ELSE requests
    IN  IF w.ins # NULL
        THEN Append(requests, [ticket_id |-> w.t, agent_id |-> w.ins,
                               status |-> "PENDING"])
        ELSE BulkReject(flushed, w.bulk, w.t, w.r)

CommitRequests(w) ==
    LET flushed == IF w.r # 0
                   THEN [requests EXCEPT ![w.r] = ApplyWrites(@, w.rw)]
                   ELSE requests
    IN  IF CommitRefused(w) THEN requests
        ELSE IF w.ins # NULL
        THEN Append(requests, [ticket_id |-> w.t, agent_id |-> w.ins,
                               status |-> "PENDING"])
        ELSE BulkReject(flushed, w.bulk, w.t, w.r)

CommitResponse(w) ==
    IF CommitRefused(w) THEN Response(w.op, "IntegrityError")
    ELSE Response(w.op, "OK")

\* ------------------------------------------------------------- actions
Init ==
    /\ tickets = <<>>
    /\ requests = <<>>
    /\ now = 0
    /\ inflight = EmptyBag
    /\ last = NoCall

\* Time passes.
Tick ==
    /\ \E d \in TickSteps : now + d <= MaxTime /\ now' = now + d
    /\ UNCHANGED <<tickets, requests, inflight, last>>

\* POST /tickets/create: INSERT a ticket (status OPEN, unassigned).
create_ticket(current_user) ==
    /\ Len(tickets) < MaxTickets
    /\ tickets' = Append(tickets,
                         [status |-> "OPEN", assigned_to |-> NULL,
                          resolved_at |-> NULL, created_at |-> now,
                          created_by |-> current_user])
    /\ UNCHANGED <<requests, now, inflight, last>>

\* A request arrives: the handler loads its rows and runs up to its first
\* write (it is then in flight), or returns a response that writes nothing.
Begin(plan) ==
    /\ IF plan.phase = "done"
       THEN UNCHANGED inflight
       ELSE /\ BagCardinality(inflight) < MaxInFlight
            /\ inflight' = inflight (+) SetToBag({plan})
    /\ UNCHANGED <<tickets, requests, now, last>>

\* A handler in flight flushes and commits.
Commit(w) ==
    /\ BagIn(w, inflight)
    /\ inflight' = inflight (-) SetToBag({w})
    /\ tickets' = CommitTickets(w)
    /\ requests' = CommitRequests(w)
    /\ UNCHANGED <<now, last>>

\* The requests clients send, each by any user and with any argument.
CreateTicket == \E u \in Creators : create_ticket(u)

BeginUpdateStatus ==
    \E u \in Users, t \in TicketIds, s \in Targets : Begin(update_status(t, s, u))

BeginAssignTicket ==
    \E u \in Users, t \in TicketIds, a \in Users \cup {NULL} :
        Begin(assign_ticket(t, a, u))

BeginRequestAssignment ==
    \E u \in Users, t \in TicketIds : Begin(request_assignment(t, u))

BeginCloseTicket ==
    \E u \in Users, t \in TicketIds : Begin(close_ticket(t, u))

BeginReopenTicket ==
    \E u \in Users, t \in TicketIds : Begin(reopen_ticket(t, u))

BeginAssignTicketAction ==
    \E u \in Users, t \in TicketIds, a \in Users \cup {NULL} :
        Begin(assign_ticket_action(t, a, u))

BeginApprove ==
    \E u \in Users, r \in RequestIds : Begin(approve_assignment_request(r, u))

BeginReject ==
    \E u \in Users, r \in RequestIds : Begin(reject_assignment_request(r, u))

CommitInFlight == \E w \in BagToSet(inflight) : Commit(w)

Next ==
    \/ Tick
    \/ CreateTicket
    \/ BeginUpdateStatus
    \/ BeginAssignTicket
    \/ BeginRequestAssignment
    \/ BeginCloseTicket
    \/ BeginReopenTicket
    \/ BeginAssignTicketAction
    \/ BeginApprove
    \/ BeginReject
    \/ CommitInFlight

\* Concurrent handlers over the store.
Spec == Init /\ [][Next]_vars

\* ------------------------------------------------- serial execution
\* One call served from its first read to its commit with no other handler
\* in between; `last` keeps the call, the time of the call, the ticket row
\* and the requests table it found, and the answer.
Serve(opname, user, tid, arg, plan) ==
    /\ inflight = EmptyBag
    /\ tickets' = IF plan.phase = "commit" THEN CommitTickets(plan) ELSE tickets
    /\ requests' = IF plan.phase = "commit" THEN CommitRequests(plan) ELSE requests
    /\ last' = [op |-> opname, user |-> user, t |-> tid, arg |-> arg, at |-> now,
                before |-> tickets[tid], reqs |-> requests,
                outcome |-> IF plan.phase = "commit"
                            THEN CommitResponse(plan).outcome ELSE plan.outcome]
    /\ UNCHANGED <<now, inflight>>

\* update_ticket_status applied to one ticket in any state the lifecycle
\* can leave it in, by any user, with any target.
TicketStates ==
    {tk \in [status : Statuses, assigned_to : {NULL, 1, 2, 3},
             resolved_at : {NULL, 0}, created_at : {0}, created_by : Creators] :
        tk.status = "OPEN" => tk.resolved_at = NULL /\ tk.assigned_to # 1}

InitTransition ==
    /\ tickets \in {<<tk>> : tk \in TicketStates}
    /\ requests = <<>>
    /\ now = 0
    /\ inflight = EmptyBag
    /\ last = NoCall

transition(t, s, u) ==
    Serve("update_ticket_status", u, t, s, update_ticket_status(t, s, u))

NextTransition ==
    \E u \in Users, t \in TicketIds, s \in Targets : transition(t, s, u)

SpecTransition == InitTransition /\ [][NextTransition]_vars

\* Every handler served serially, from the empty database.
ServeUpdateStatus ==
    \E u \in Users, t \in TicketIds, s \in Targets :
        Serve("update_status", u, t, s, update_status(t, s, u))

ServeAssignTicket ==
    \E u \in Users, t \in TicketIds, a \in Users \cup {NULL} :
        Serve("assign_ticket", u, t, a, assign_ticket(t, a, u))

ServeRequestAssignment ==
    \E u \in Users, t \in TicketIds :
        Serve("request_assignment", u, t, NULL, request_assignment(t, u))

ServeCloseTicket ==
    \E u \in Users, t \in TicketIds :
        Serve("close_ticket", u, t, NULL, close_ticket(t, u))

ServeReopenTicket ==
    \E u \in Users, t \in TicketIds :
        Serve("reopen_ticket", u, t, NULL, reopen_ticket(t, u))

ServeAssignTicketAction ==
    \E u \in Users, t \in TicketIds, a \in Users \cup {NULL} :
        Serve("assign_ticket_action", u, t, a, assign_ticket_action(t, a, u))

ServeApprove ==
    \E u \in Users, r \in RequestIds :
        Serve("approve_assignment_request", u, requests[r].ticket_id, r,
              approve_assignment_request(r, u))

ServeReject ==
    \E u \in Users, r \in RequestIds :
        Serve("reject_assignment_request", u, requests[r].ticket_id, r,
              reject_assignment_request(r, u))

NextSerial ==
    \/ Tick
    \/ CreateTicket
    \/ ServeUpdateStatus
    \/ ServeAssignTicket
    \/ ServeRequestAssignment
    \/ ServeCloseTicket
    \/ ServeReopenTicket
    \/ ServeAssignTicketAction
    \/ ServeApprove
    \/ ServeReject

\* The handlers one after the other, none overlapping another.
SpecSerial == Init /\ [][NextSerial]_vars

\* ------------------------------------------------- the derived values
\* The pages evaluate can_request_assignment and the two SLA calculators on
\* a ticket row at the time of the request; they write nothing.  Here each
\* is applied to one ticket, of any priority and in any state, whose age is
\* within BoundarySlack minutes of a threshold of the code: the SLA targets,
\* the warning margin before each, and the request age.  The rows here carry
\* the priority column, which no handler above reads.
SlaTargets == {get_sla_target([priority |-> p]) : p \in Priorities}

ThresholdHours ==
    {0, RequestAgeHours} \cup SlaTargets \cup {h - WarningHours : h \in SlaTargets}

AgesAround(hours) ==
    {a \in {h * MinutesPerHour + d :
                h \in hours, d \in (0 - BoundarySlack)..BoundarySlack} : a >= 0}

ViewTickets ==
    {tk \in [status : Statuses, assigned_to : {NULL, 2},
             resolved_at : {NULL} \cup {c + a : c \in {0, MinutesPerHour},
                                                a \in AgesAround(SlaTargets)},
             created_at : {0, MinutesPerHour}, created_by : {4},
             priority : Priorities] :
        /\ tk.status = "OPEN" => tk.resolved_at = NULL
        /\ tk.resolved_at # NULL
           => tk.resolved_at - tk.created_at \in AgesAround(SlaTargets)}

InitViews ==
    /\ tickets \in {<<tk>> : tk \in ViewTickets}
    /\ now \in {tickets[1].created_at + a : a \in AgesAround(ThresholdHours)}
    /\ tickets[1].resolved_at # NULL => tickets[1].resolved_at <= now
    /\ requests = <<>>
    /\ inflight = EmptyBag
    /\ last = NoCall

\* A page evaluates one of the functions on ticket t.
Evaluate(opname, t, value) ==
    /\ last' = [op |-> opname, t |-> t, at |-> now, before |-> tickets[t],
                result |-> value]
    /\ UNCHANGED <<tickets, requests, now, inflight>>

ViewCanRequest ==
    \E t \in TicketIds :
        Evaluate("can_request_assignment", t, can_request_assignment(tickets[t]))

ViewSlaStatus ==
    \E t \in TicketIds :
        Evaluate("calculate_sla_status", t, calculate_sla_status(tickets[t]))

ViewSlaService ==
    \E t \in TicketIds :
        Evaluate("sla_service.calculate_sla_status", t,
                 sla_service_calculate_sla_status(tickets[t]))

NextViews ==
    \/ ViewCanRequest
    \/ ViewSlaStatus
    \/ ViewSlaService

SpecViews == InitViews /\ [][NextViews]_vars

\* ------------------------------------------------- the access policy
\* Viewing, editing and deleting one ticket, of any priority the enum lists
\* and in any state the lifecycle can leave it in, by any user.  The rows
\* here carry the columns the edit form sets.
TicketsWithPriority ==
    {[f \in DOMAIN tk \cup {"priority", "title", "description", "category"} |->
         CASE f = "priority" -> p
           [] f = "title" -> "title A"
           [] f = "description" -> "text A"
           [] f = "category" -> "IT"
           [] OTHER -> tk[f]] :
        tk \in TicketStates, p \in Priorities \ {"Urgent"}}

InitAccess ==
    /\ tickets \in {<<tk>> : tk \in TicketsWithPriority}
    /\ requests = <<>>
    /\ now = 0
    /\ inflight = EmptyBag
    /\ last = NoCall

ServeViewTicket ==
    \E u \in Users, t \in TicketIds :
        Serve("view_ticket", u, t, NULL, view_ticket(t, u))

ServeEditTicket ==
    \E u \in Users, t \in TicketIds, m \in {"GET", "POST"}, f \in EditForms :
        Serve("edit_ticket", u, t, m, edit_ticket(t, m, f, u))

ServeDeleteTicket ==
    \E u \in Users, t \in TicketIds :
        Serve("delete_ticket", u, t, NULL, delete_ticket(t, u))

NextAccess ==
    \/ ServeViewTicket
    \/ ServeEditTicket
    \/ ServeDeleteTicket

SpecAccess == InitAccess /\ [][NextAccess]_vars

\* ------------------------------------------------------------- properties
\* The status graph of the design: OPEN -> IN_PROGRESS, IN_PROGRESS -> OPEN,
\* IN_PROGRESS -> RESOLVED, RESOLVED -> IN_PROGRESS, RESOLVED -> CLOSED.
Edges ==
    {<<"OPEN", "IN_PROGRESS">>, <<"IN_PROGRESS", "OPEN">>,
     <<"IN_PROGRESS", "RESOLVED">>, <<"RESOLVED", "IN_PROGRESS">>,
     <<"RESOLVED", "CLOSED">>}

RequestsOf(t, st) ==
    {r \in RequestIds : requests[r].ticket_id = t /\ requests[r].status = st}

DirectAssignOps == {"assign_ticket", "assign_ticket_action"}

\* C1: every ticket has at most one AssignmentRequest in status APPROVED.
C1_SingleApproved ==
    \A t \in TicketIds : Cardinality(RequestsOf(t, "APPROVED")) <= 1

ApprovesInFlight ==
    {w \in BagToSet(inflight) : w.op = "approve_assignment_request"}

\* C2: two approve calls are in flight on two different PENDING requests of
\* one unassigned ticket.  When the first of them commits (it assigns the
\* ticket and marks its request APPROVED), the other is left to answer
\* Conflict: its commit changes neither table.  So exactly one succeeds.
C2_OneApproveWins ==
    [][\A w1, w2 \in ApprovesInFlight :
          ( /\ w1.t = w2.t /\ w1.r # w2.r
            /\ requests[w1.r].status = "PENDING"
            /\ requests[w2.r].status = "PENDING"
            /\ tickets[w1.t].assigned_to = NULL
            /\ Commit(w1) )
          => /\ tickets'[w1.t].assigned_to = requests[w1.r].agent_id
             /\ requests'[w1.r].status = "APPROVED"
             /\ CommitTickets(w2)' = tickets'
             /\ CommitRequests(w2)' = requests']_vars

\* C3: every ticket has at most one AssignmentRequest in status PENDING.
C3_SinglePending ==
    \A t \in TicketIds : Cardinality(RequestsOf(t, "PENDING")) <= 1

\* C4: when an approve call or a direct_assign call (either entry point)
\* on a ticket completes, no request for that ticket is PENDING.
C4_NoPendingAfterAssign ==
    [][\A w \in BagToSet(inflight) :
          ( /\ w.op \in DirectAssignOps \cup {"approve_assignment_request"}
            /\ Commit(w) )
          => \A r \in DOMAIN requests' :
                requests'[r].ticket_id = w.t => requests'[r].status # "PENDING"]_vars

\* C5: a PENDING request of a ticket that has an assignee is eventually
\* REJECTED.  Nothing runs in the background: every change is a client's
\* call, and no client has to send another one.  So the claim requires that
\* once every call has completed (no handler in flight) no ticket with an
\* assignee is left with a PENDING request.
C5_NoDanglingPending ==
    inflight = EmptyBag =>
        \A r \in RequestIds :
            ~( /\ requests[r].status = "PENDING"
               /\ tickets[requests[r].ticket_id].assigned_to # NULL )

\* C6: a request whose status is APPROVED or REJECTED never changes status
\* again.
C6_TerminalRequestsFinal ==
    [][\A r \in RequestIds :
          requests[r].status \in {"APPROVED", "REJECTED"}
          => requests'[r].status = requests[r].status]_vars

\* C7: an approve call on a PENDING request and a direct_assign call that
\* gives the same ticket an agent are both in flight.  When the direct_assign
\* commits first, the approve is left to answer Conflict: its commit changes
\* neither table, and the assignee stays the one direct_assign chose.
C7_ApproveLosesToDirectAssign ==
    [][\A wa \in ApprovesInFlight, wd \in BagToSet(inflight) :
          ( /\ wd.op \in DirectAssignOps /\ wd.t = wa.t
            /\ "assigned_to" \in DOMAIN wd.tw /\ wd.tw.assigned_to # NULL
            /\ requests[wa.r].status = "PENDING"
            /\ Commit(wd) )
          => /\ tickets'[wa.t].assigned_to = wd.tw.assigned_to
             /\ CommitTickets(wa)' = tickets'
             /\ CommitRequests(wa)' = requests']_vars

\* C8: every change of a ticket's status goes along an edge of the graph.
C8_StatusFollowsEdges ==
    [][\A t \in TicketIds :
          tickets'[t].status # tickets[t].status
          => <<tickets[t].status, tickets'[t].status>> \in Edges]_vars

\* C9: once a ticket is CLOSED its status, assignee and resolved_at never
\* change again.
C9_ClosedAbsorbing ==
    [][\A t \in TicketIds :
          tickets[t].status = "CLOSED"
          => /\ tickets'[t].status = "CLOSED"
             /\ tickets'[t].assigned_to = tickets[t].assigned_to
             /\ tickets'[t].resolved_at = tickets[t].resolved_at]_vars

\* The actors the design permits to call transition: an admin, an agent who
\* is the assignee, the creator.
PermittedActor(u, ticket) ==
    \/ role(u) = "admin"
    \/ role(u) = "agent" /\ ticket.assigned_to = u
    \/ ticket.created_by = u

\* C10: for a permitted actor, transition succeeds (and sets the status to
\* the target) iff (current, target) is an edge of the graph; it never
\* succeeds from CLOSED; can_transition_to and validate_status_transition
\* give the same answer for the pair.
C10_TransitionIffEdge ==
    last.op = "update_ticket_status" =>
        /\ PermittedActor(last.user, last.before)
           => ( last.outcome = "OK"
                <=> <<last.before.status, last.arg>> \in Edges )
        /\ last.before.status = "CLOSED" => last.outcome # "OK"
        /\ last.outcome = "OK" <=> tickets[last.t].status # last.before.status
        /\ last.outcome = "OK" => tickets[last.t].status = last.arg
        /\ can_transition_to(last.before, last.arg)
           <=> validate_status_transition(last.before.status, last.arg)

\* A permitted actor has just closed a RESOLVED ticket through transition.
C10_Witness ==
    /\ last.op = "update_ticket_status"
    /\ PermittedActor(last.user, last.before)
    /\ last.before.status = "RESOLVED"
    /\ last.arg = "CLOSED"
    /\ last.outcome = "OK"
    /\ tickets[last.t].status = "CLOSED"

\* C11: for every ticket, resolved_at holds a value iff the status is
\* RESOLVED or CLOSED.
C11_ResolvedAtIffResolved ==
    \A t \in TicketIds :
        tickets[t].resolved_at # NULL
        <=> tickets[t].status \in {"RESOLVED", "CLOSED"}

\* C12: for every ticket, no assignee implies status OPEN.
C12_UnassignedIsOpen ==
    \A t \in TicketIds :
        tickets[t].assigned_to = NULL => tickets[t].status = "OPEN"

\* C13: transition on a CLOSED ticket answers Immutable whatever the target
\* and whoever the actor, and leaves the ticket row as it was.
C13_ClosedIsImmutable ==
    (last.op = "update_ticket_status" /\ last.before.status = "CLOSED")
    => /\ last.outcome = "Immutable"
       /\ tickets[last.t] = last.before

\* An admin, and an actor who is neither admin, agent nor creator, asked for
\* a CLOSED ticket to be RESOLVED and got Immutable.
C13_Witness ==
    /\ last.op = "update_ticket_status"
    /\ last.before.status = "CLOSED"
    /\ last.arg = "RESOLVED"
    /\ last.outcome = "Immutable"
    /\ \/ is_admin(last.user)
       \/ ~is_agent(last.user) /\ last.before.created_by # last.user

\* C14: transition on a ticket that is not CLOSED, called by an actor who
\* is not an admin, not an agent holding the ticket, and not the creator,
\* answers Forbidden and leaves the ticket row as it was.
C14_OnlyPermittedActors ==
    ( /\ last.op = "update_ticket_status"
      /\ last.before.status # "CLOSED"
      /\ ~PermittedActor(last.user, last.before) )
    => /\ last.outcome = "Forbidden"
       /\ tickets[last.t] = last.before

\* C15: reject by an admin on a PENDING request makes it REJECTED; on a
\* request that is APPROVED or REJECTED it answers with a notice, not an
\* error, and changes nothing.  In both cases no other request and no ticket
\* field changes, and a second reject of the same request right after would
\* write nothing: twice is the same as once.
C15_RejectIdempotent ==
    (last.op = "reject_assignment_request" /\ is_admin(last.user))
    => /\ tickets[last.t] = last.before
       /\ IF last.reqs[last.arg].status = "PENDING"
          THEN /\ last.outcome = "OK"
               /\ requests = [last.reqs EXCEPT ![last.arg].status = "REJECTED"]
          ELSE /\ last.outcome = "AlreadyProcessed"
               /\ requests = last.reqs
       /\ reject_assignment_request(last.arg, last.user).phase = "done"

\* An admin rejected a request that was already REJECTED, while the ticket
\* had another request.
C15_Witness ==
    /\ last.op = "reject_assignment_request"
    /\ is_admin(last.user)
    /\ last.reqs[last.arg].status = "REJECTED"
    /\ last.outcome = "AlreadyProcessed"
    /\ Len(requests) = 2

\* The PENDING requests for ticket t in the requests table reqs.
PendingIn(reqs, t) ==
    {i \in DOMAIN reqs : reqs[i].ticket_id = t /\ reqs[i].status = "PENDING"}

\* C16: an agent's submit_request for a ticket that already has
\* a PENDING request answers Conflict and creates no request.
C16_FirstSubmitterWins ==
    ( /\ last.op = "request_assignment"
      /\ is_agent(last.user)
      /\ PendingIn(last.reqs, last.t) # {} )
    => /\ last.outcome = "Conflict"
       /\ requests = last.reqs

\* C17: an agent's submit_request either creates a PENDING request or
\* answers one of NotEligible, Conflict, DuplicateRequest; on an eligible
\* ticket with no PENDING request it creates the request, also for an agent
\* whose earlier request for the ticket was REJECTED.
C17_SubmitOutcomes ==
    (last.op = "request_assignment" /\ is_agent(last.user))
    => /\ last.outcome \in {"OK", "NotEligible", "Conflict", "DuplicateRequest"}
       /\ last.outcome = "OK"
          <=> requests = Append(last.reqs, [ticket_id |-> last.t,
                                            agent_id |-> last.user,
                                            status |-> "PENDING"])
       /\ last.outcome # "OK" => requests = last.reqs
       /\ ( /\ last.at = now
            /\ can_request_assignment(last.before)
            /\ PendingIn(last.reqs, last.t) = {} )
          => last.outcome = "OK"

\* C18: the requests table never holds two rows with the same ticket and
\* the same agent, whatever their status.
C18_OneRequestPerTicketAgent ==
    \A i, j \in RequestIds :
        (requests[i].ticket_id = requests[j].ticket_id
         /\ requests[i].agent_id = requests[j].agent_id) => i = j

\* A submit_request of an agent is about to commit while the table already
\* holds that agent's request for the ticket, next to another agent's.
C18_Witness ==
    /\ Len(requests) = 2
    /\ \E w \in BagToSet(inflight) :
          /\ w.op = "request_assignment"
          /\ UniqueViolation(requests, w.t, w.ins)

\* The age, in minutes, of the ticket of the last call at the time of the call.
AgeAtCall == last.at - last.before.created_at

\* C19: can_request(ticket) is true iff the ticket has no assignee, is OPEN
\* and is at least 24 hours old: true at exactly 24 hours, false one minute
\* earlier.
C19_CanRequestBoundary ==
    last.op = "can_request_assignment" =>
        LET unassigned_open == /\ last.before.assigned_to = NULL
                               /\ last.before.status = "OPEN"
        IN  /\ last.result <=> (unassigned_open /\ AgeAtCall >= 24 * 60)
            /\ (unassigned_open /\ AgeAtCall = 24 * 60) => last.result
            /\ AgeAtCall = 24 * 60 - 1 => ~last.result

\* can_request is true for an unassigned OPEN ticket exactly 24 hours old.
C19_Witness ==
    /\ last.op = "can_request_assignment"
    /\ AgeAtCall = 24 * 60
    /\ last.result

\* The last call was about a Critical ticket that is not resolved.
UnresolvedCritical ==
    /\ last.before.priority = "Critical"
    /\ last.before.resolved_at = NULL
    /\ last.before.status \in {"OPEN", "IN_PROGRESS"}

\* C20: an unresolved Critical ticket created exactly 4 hours ago has
\* remaining = 0 and is classified overdue; at 3h59m it is not overdue and
\* at 4h01m it is overdue.  (Both calculators.)
C20_OverdueAtTarget ==
    /\ (last.op = "calculate_sla_status" /\ UnresolvedCritical)
       => /\ AgeAtCall = 4 * 60
             => /\ last.result.remaining_hours = 0
                /\ last.result.is_overdue
                /\ last.result.status_class = "sla-overdue"
          /\ AgeAtCall = 4 * 60 - 1
             => /\ ~last.result.is_overdue
                /\ last.result.status_class \in {"sla-ok", "sla-warning"}
          /\ AgeAtCall = 4 * 60 + 1
             => /\ last.result.is_overdue
                /\ last.result.status_class = "sla-overdue"
    /\ (last.op = "sla_service.calculate_sla_status" /\ UnresolvedCritical)
       => /\ AgeAtCall = 4 * 60
             => /\ last.result.remaining = 0
                /\ last.result.overdue
                /\ last.result.status = "breached"
          /\ AgeAtCall = 4 * 60 - 1
             => ~last.result.overdue /\ last.result.status = "ok"
          /\ AgeAtCall = 4 * 60 + 1
             => last.result.overdue /\ last.result.status = "breached"

\* C20 (amended): an unresolved Critical ticket created exactly 4 hours ago
\* has remaining = 0 and is not overdue: tickets/services.py classifies it
\* warning, sla_service.py ok.  At 3h59m it is not overdue (warning, ok) and
\* at 4h01m it is overdue.
C20_NotOverdueAtTarget ==
    /\ (last.op = "calculate_sla_status" /\ UnresolvedCritical)
       => /\ AgeAtCall = 4 * 60
             => /\ last.result.remaining_hours = 0
                /\ ~last.result.is_overdue
                /\ last.result.status_class = "sla-warning"
          /\ AgeAtCall = 4 * 60 - 1
             => /\ ~last.result.is_overdue
                /\ last.result.status_class = "sla-warning"
          /\ AgeAtCall = 4 * 60 + 1
             => /\ last.result.is_overdue
                /\ last.result.status_class = "sla-overdue"
    /\ (last.op = "sla_service.calculate_sla_status" /\ UnresolvedCritical)
       => /\ AgeAtCall = 4 * 60
             => /\ last.result.remaining = 0
                /\ ~last.result.overdue
                /\ last.result.status = "ok"
          /\ AgeAtCall = 4 * 60 - 1
             => ~last.result.overdue /\ last.result.status = "ok"
          /\ AgeAtCall = 4 * 60 + 1
             => last.result.overdue /\ last.result.status = "breached"

\* tickets/services.py has just classified an unresolved Critical ticket
\* created exactly 4 hours before.
C20_Witness ==
    /\ last.op = "calculate_sla_status"
    /\ UnresolvedCritical
    /\ AgeAtCall = 4 * 60
    /\ last.result.remaining_hours = 0
    /\ last.result.status_class = "sla-warning"

\* The SLA target of the design for the ticket of the last call, in minutes:
\* 4, 24, 48, 72 hours for Critical, High, Medium, Low, 72 for any other.
TargetAtCall ==
    60 * ( IF last.before.priority = "Critical" THEN 4
           ELSE IF last.before.priority = "High" THEN 24
           ELSE IF last.before.priority = "Medium" THEN 48
           ELSE 72 )

\* C21: for an unresolved ticket, with remaining = target - (now -
\* created_at): the overdue flag is true iff remaining < 0; the class is
\* overdue iff remaining < 0, warning iff 0 <= remaining < 2 hours, ok
\* otherwise.
C21_UnresolvedClassification ==
    (last.op = "calculate_sla_status" /\ last.before.resolved_at = NULL)
    => LET remaining == TargetAtCall - AgeAtCall
       IN  /\ last.result.target_hours * 60 = TargetAtCall
           /\ last.result.remaining_hours = remaining
           /\ last.result.is_overdue <=> remaining < 0
           /\ last.result.status_class = "sla-overdue" <=> remaining < 0
           /\ last.result.status_class = "sla-warning"
              <=> (0 <= remaining /\ remaining < 2 * 60)
           /\ last.result.status_class = "sla-ok" <=> remaining >= 2 * 60

\* An unresolved ticket of a priority the table does not list, one minute
\* inside the warning margin of the 72 hour target.
C21_Witness ==
    /\ last.op = "calculate_sla_status"
    /\ last.before.resolved_at = NULL
    /\ last.before.priority = "Urgent"
    /\ AgeAtCall = 70 * 60 + 1
    /\ last.result.status_class = "sla-warning"

\* C22: for a ticket with resolved_at present, both calculators report
\* overdue iff resolved_at - created_at > target and a remaining time of
\* zero; tickets/services.py reports elapsed = resolved_at - created_at.
C22_ResolvedRemainingZero ==
    LET elapsed == last.before.resolved_at - last.before.created_at
    IN  /\ (last.op = "calculate_sla_status" /\ last.before.resolved_at # NULL)
           => /\ last.result.elapsed_hours = elapsed
              /\ last.result.is_overdue <=> elapsed > TargetAtCall
              /\ last.result.remaining_hours = 0
        /\ ( /\ last.op = "sla_service.calculate_sla_status"
             /\ last.before.resolved_at # NULL )
           => /\ last.result.overdue <=> elapsed > TargetAtCall
              /\ last.result.remaining = 0

\* The status changes the access policy of the design lets actor u ask for
\* through the status-change operation.
PolicyAllows(u, ticket, target) ==
    \/ /\ role(u) = "agent"
       /\ ticket.assigned_to = u
       /\ target \in {"IN_PROGRESS", "RESOLVED"}
    \/ /\ role(u) = "admin"
       /\ target = "IN_PROGRESS"
       /\ ticket.status \in {"RESOLVED", "CLOSED"}

\* C23: through the status-change operation a ticket changes only on the
\* request of the agent it is assigned to, for IN_PROGRESS or RESOLVED, or
\* of an admin, for IN_PROGRESS from RESOLVED or CLOSED; a plain user never
\* changes it.  Any other request is refused and changes nothing.
C23_StatusChangePolicy ==
    last.op = "update_status" =>
        /\ ~PolicyAllows(last.user, last.before, last.arg)
           => /\ last.outcome = "Forbidden"
              /\ tickets[last.t] = last.before
        /\ role(last.user) = "user" => tickets[last.t] = last.before
        /\ tickets[last.t].assigned_to = last.before.assigned_to
        /\ requests = last.reqs

\* The agent a ticket is assigned to has just moved it to RESOLVED.
C23_Witness ==
    /\ last.op = "update_status"
    /\ is_agent(last.user)
    /\ last.before.assigned_to = last.user
    /\ last.before.status = "IN_PROGRESS"
    /\ last.arg = "RESOLVED"
    /\ last.outcome = "OK"
    /\ tickets[last.t].status = "RESOLVED"

\* C24: close and reopen change a ticket only when it is RESOLVED and the
\* actor is its creator or an admin.  close then makes it CLOSED and keeps
\* resolved_at; reopen makes it IN_PROGRESS and clears resolved_at.  In
\* every other case the ticket is as it was.
C24_CloseReopen ==
    last.op \in {"close_ticket", "reopen_ticket"} =>
        LET permitted == /\ last.before.status = "RESOLVED"
                         /\ \/ last.before.created_by = last.user
                            \/ role(last.user) = "admin"
        IN  /\ (permitted /\ last.op = "close_ticket")
               => tickets[last.t] = [last.before EXCEPT !.status = "CLOSED"]
            /\ (permitted /\ last.op = "reopen_ticket")
               => tickets[last.t] = [last.before EXCEPT !.status = "IN_PROGRESS",
                                                       !.resolved_at = NULL]
            /\ ~permitted => tickets[last.t] = last.before
            /\ requests = last.reqs

\* The creator, not an admin, has just reopened a RESOLVED ticket whose
\* resolved_at was set.
C24_Witness ==
    /\ last.op = "reopen_ticket"
    /\ ~is_admin(last.user)
    /\ last.before.created_by = last.user
    /\ last.before.status = "RESOLVED"
    /\ last.before.resolved_at # NULL
    /\ tickets[last.t].status = "IN_PROGRESS"
    /\ tickets[last.t].resolved_at = NULL

\* C25: an edit or a delete of a ticket is accepted only when the actor is
\* the creator and the ticket is OPEN and unassigned; otherwise it is
\* refused and the ticket is as it was.  In particular an unassigned ticket
\* that is not OPEN is neither edited nor deleted, and an assigned ticket is
\* never removed.
C25_EditDeleteOnlyOpenUnassigned ==
    last.op \in {"edit_ticket", "delete_ticket"} =>
        LET allowed == /\ last.before.created_by = last.user
                       /\ last.before.status = "OPEN"
                       /\ last.before.assigned_to = NULL
        IN  /\ ~allowed => /\ last.outcome \notin {"OK", "Form"}
                           /\ tickets[last.t] = last.before
            /\ (last.op = "delete_ticket" /\ last.before.assigned_to # NULL)
               => last.outcome # "OK"

\* C26: the ticket detail view is granted to an admin always, to an agent
\* iff the ticket is unassigned or assigned to that agent, to a user iff
\* they created the ticket; can_user_view_ticket computes the same rule.
C26_ViewPermission ==
    last.op = "view_ticket" =>
        LET rule == \/ role(last.user) = "admin"
                    \/ /\ role(last.user) = "agent"
                       /\ last.before.assigned_to \in {NULL, last.user}
                    \/ /\ role(last.user) = "user"
                       /\ last.before.created_by = last.user
        IN  /\ can_user_view_ticket(last.before, last.user) <=> rule
            /\ last.outcome = "OK" <=> rule

\* C27: a direct_assign of an agent by an admin on a CLOSED ticket, through
\* either entry point, answers Conflict and leaves the ticket and every
\* request as they were.
C27_DirectAssignClosedConflict ==
    ( /\ last.op \in DirectAssignOps
      /\ is_admin(last.user)
      /\ last.arg # NULL /\ is_agent(last.arg)
      /\ last.before.status = "CLOSED" )
    => /\ last.outcome = "Conflict"
       /\ tickets[last.t] = last.before
       /\ requests = last.reqs

\* C28: after a successful direct_assign with an agent, through either
\* entry point, the ticket is assigned to that agent and is IN_PROGRESS.
C28_DirectAssignInProgress ==
    ( /\ last.op \in DirectAssignOps
      /\ last.arg # NULL
      /\ last.outcome = "OK" )
    => /\ tickets[last.t].assigned_to = last.arg
       /\ tickets[last.t].status = "IN_PROGRESS"

\* C29: the commit of an approve of request R for ticket T is one step
\* after which T is assigned to R's agent and IN_PROGRESS, R is APPROVED,
\* every other request of T that was PENDING is REJECTED, and every other
\* request is as it was.
C29_ApproveEffects ==
    [][\A w \in ApprovesInFlight :
          Commit(w)
          => /\ tickets'[w.t].assigned_to = requests[w.r].agent_id
             /\ tickets'[w.t].status = "IN_PROGRESS"
             /\ requests'[w.r].status = "APPROVED"
             /\ \A i \in RequestIds \ {w.r} :
                   IF requests[i].ticket_id = w.t /\ requests[i].status = "PENDING"
                   THEN requests'[i] = [requests[i] EXCEPT !.status = "REJECTED"]
                   ELSE requests'[i] = requests[i]]_vars

\* C30: approve succeeds only on a ticket that is OPEN.
C30_ApproveOnlyFromOpen ==
    (last.op = "approve_assignment_request" /\ last.outcome = "OK")
    => last.before.status = "OPEN"

\* C31: an approve of a request whose ticket is RESOLVED or CLOSED changes
\* nothing: the ticket row (assignee, status, resolved_at) and every
\* request, the approved one included, are as they were.
C31_ApproveResolvedNoOp ==
    ( /\ last.op = "approve_assignment_request"
      /\ last.before.status \in {"RESOLVED", "CLOSED"} )
    => /\ last.outcome # "OK"
       /\ tickets[last.t] = last.before
       /\ requests = last.reqs

\* An admin approved a request of an unassigned RESOLVED or CLOSED ticket
\* and was told the ticket cannot be assigned.
C31_Witness ==
    /\ last.op = "approve_assignment_request"
    /\ is_admin(last.user)
    /\ last.before.status \in {"RESOLVED", "CLOSED"}
    /\ last.before.assigned_to = NULL
    /\ last.outcome = "AlreadyResolved"
    /\ tickets[last.t] = last.before
    /\ requests = last.reqs

\* C32: a successful transition to RESOLVED of a ticket without resolved_at
\* sets resolved_at to the time of the call, and a successful transition to
\* IN_PROGRESS of a RESOLVED ticket leaves resolved_at null.
C32_ResolvedAtSetAndCleared ==
    (last.op = "update_ticket_status" /\ last.outcome = "OK")
    => /\ (last.arg = "RESOLVED" /\ last.before.resolved_at = NULL)
          => tickets[last.t].resolved_at = last.at
       /\ (last.arg = "IN_PROGRESS" /\ last.before.status = "RESOLVED")
          => tickets[last.t].resolved_at = NULL

RequestInsertsInFlight ==
    {w \in BagToSet(inflight) : w.op = "request_assignment"}

\* C33: whenever the commit of a request_assignment adds an
\* AssignmentRequest, the ticket is at that moment unassigned, OPEN and at
\* least 24 hours old.
C33_CreatedOnlyWhenEligible ==
    [][\A w \in RequestInsertsInFlight :
          (Commit(w) /\ Len(requests') > Len(requests))
          => can_request_assignment(tickets[w.t])]_vars

\* The agent of the last call had a PENDING request for the ticket when the
\* call arrived.
OwnPendingAtCall ==
    \E r \in 1..Len(last.reqs) :
        /\ last.reqs[r].ticket_id = last.t
        /\ last.reqs[r].agent_id = last.user
        /\ last.reqs[r].status = "PENDING"

C35_CreationFieldsImmutable ==
    [][\A t \in TicketIds :
          /\ tickets'[t].title = tickets[t].title
          /\ tickets'[t].description = tickets[t].description
          /\ tickets'[t].category = tickets[t].category
          /\ tickets'[t].created_by = tickets[t].created_by
          /\ tickets'[t].created_at = tickets[t].created_at]_vars

C37_ResolvedAtIsLatestResolution ==
    [][\A t \in TicketIds :
          /\ (tickets[t].status # "RESOLVED" /\ tickets'[t].status = "RESOLVED")
             => tickets'[t].resolved_at = now
          /\ (tickets[t].status = "RESOLVED" /\ tickets'[t].status = "RESOLVED")
             => tickets'[t].resolved_at = tickets[t].resolved_at]_vars

\* C38: no step moves a ticket whose status is not OPEN to OPEN, so a
\* ticket that has left OPEN is not eligible for an assignment request
\* again.
C38_NeverBackToOpen ==
    [][\A t \in TicketIds :
          tickets[t].status # "OPEN"
          => /\ tickets'[t].status # "OPEN"
             /\ ~(can_request_assignment(tickets[t]))']_vars

\* The agent a ticket in progress is assigned to asked for status OPEN, an
\* edge of the transition table, and was refused; the ticket is as it was.
C38_Witness ==
    /\ last.op = "update_status"
    /\ last.arg = "OPEN"
    /\ last.before.status = "IN_PROGRESS"
    /\ last.before.assigned_to = last.user
    /\ is_agent(last.user)
    /\ last.outcome = "Forbidden"
    /\ tickets[last.t] = last.before

\* A ticket row together with the priority it was filed with.
WithPriority(tk, p) ==
    [f \in DOMAIN tk \cup {"priority"} |-> IF f = "priority" THEN p ELSE tk[f]]

\* C39: for every ticket the lifecycle handlers can produce, of any
\* priority, and at every time, the two SLA calculators give the same
\* overdue flag.
C39_CalculatorsAgreeOnOverdue ==
    \A t \in TicketIds, p \in Priorities :
        calculate_sla_status(WithPriority(tickets[t], p)).is_overdue
        = sla_service_calculate_sla_status(WithPriority(tickets[t], p)).overdue

====
